---- MODULE Spec2Model ----
(***************************************************************************)
(* Model of the SDE core of diffusionjax (src/sgm/sde.py) and of the       *)
(* get_sde factories (src/sgm/sde.py, src/diffusionjax/run_lib.py).        *)
(*                                                                         *)
(* Numbers are exact: a number is a pair <<n, d>> in lowest terms with     *)
(* d > 0; <<0, 0>> is NaN and <<1, 0>>, <<-1, 0>> are +inf and -inf, the   *)
(* values jax arithmetic produces where Python arithmetic would not raise. *)
(* sqrt and exp are kept symbolic (a record naming the argument), so       *)
(* that sqrt(a)*sqrt(b) = sqrt(a*b), sqrt(a)^2 = a and the sign of         *)
(* 1 - exp(r) are decided exactly.  States x are scalars: every operation  *)
(* of the source acts elementwise on a batch.                              *)
(***************************************************************************)
EXTENDS Integers, Sequences, FiniteSets, TLC

(* ------------------------------ bounds --------------------------------- *)
MaxSteps == 3
NegSteps == 2
MaxBeta == 2
MaxX == 1
TDen == 2
MaxTimes == 10
MaxJit == 2
MaxFreq == 3
MaxLogFreq == 2
MaxIters == 3
MaxBatches == 2
MaxProc == 1

(* ------------------------- exact arithmetic ---------------------------- *)
Abs(a) == IF a < 0 THEN -a ELSE a

RECURSIVE GCD(_, _)
GCD(a, b) == IF b = 0 THEN a ELSE GCD(b, a % b)

NaN == <<0, 0>>
Zero == <<0, 1>>
One == <<1, 1>>
Half == <<1, 2>>
Quarter == <<1, 4>>

IsNaN(a) == a = NaN
IsInf(a) == a[2] = 0 /\ a[1] # 0
IsFinite(a) == a[2] > 0

Sgn(n) == IF n > 0 THEN 1 ELSE IF n < 0 THEN -1 ELSE 0

\* n/d in lowest terms, d > 0; d = 0 yields inf (n # 0) or NaN (n = 0)
Rat(n, d) ==
  IF d = 0 THEN <<Sgn(n), 0>>
  ELSE LET g == GCD(Abs(n), Abs(d))
           s == IF d < 0 THEN -1 ELSE 1
       IN  <<(s * n) \div g, (s * d) \div g>>

RNeg(a) == <<-a[1], a[2]>>

RAdd(a, b) ==
  IF IsNaN(a) \/ IsNaN(b) THEN NaN
  ELSE IF IsInf(a) /\ IsInf(b) THEN (IF a = b THEN a ELSE NaN)
  ELSE IF IsInf(a) THEN a
  ELSE IF IsInf(b) THEN b
  ELSE Rat(a[1] * b[2] + b[1] * a[2], a[2] * b[2])

RSub(a, b) == RAdd(a, RNeg(b))

RMul(a, b) ==
  IF IsNaN(a) \/ IsNaN(b) THEN NaN
  ELSE IF IsInf(a) \/ IsInf(b)
       THEN <<Sgn(a[1]) * Sgn(b[1]), 0>>
  ELSE Rat(a[1] * b[1], a[2] * b[2])

\* jax division: x / 0 is inf or NaN, never an exception
RDiv(a, b) ==
  IF IsNaN(a) \/ IsNaN(b) THEN NaN
  ELSE IF IsInf(a) /\ IsInf(b) THEN NaN
  ELSE IF IsInf(b) THEN Zero
  ELSE IF IsInf(a) THEN <<Sgn(a[1]) * (IF b[1] < 0 THEN -1 ELSE 1), 0>>
  ELSE Rat(a[1] * b[2], a[2] * b[1])

RLt(a, b) == IsFinite(a) /\ IsFinite(b) /\ a[1] * b[2] < b[1] * a[2]
RLe(a, b) == IsFinite(a) /\ IsFinite(b) /\ a[1] * b[2] <= b[1] * a[2]

Whole(n) == <<n, 1>>

\* jnp.sqrt: symbolic sqrt(rad); NaN for a negative or NaN argument
Sqrt(a) == IF IsNaN(a) \/ a[1] < 0 THEN [rad |-> NaN] ELSE [rad |-> a]
\* sqrt(a) * sqrt(b) = sqrt(a * b)
SurdMul(s, u) ==
  IF IsNaN(s.rad) \/ IsNaN(u.rad) THEN [rad |-> NaN]
  ELSE [rad |-> RMul(s.rad, u.rad)]
\* sqrt(a) ** 2 = a
SurdSq(s) == s.rad

\* jnp.exp, symbolic: the value e^r
Exp(r) == [exparg |-> r]
\* m * x for m = e^r: the value x * e^r
ExpScale(m, x) == [coef |-> x, exparg |-> m.exparg]
\* 1.0 - e^r, symbolic
OneMinusExp(m) == [ome |-> m.exparg]
\* sign of 1 - e^r: exp is strictly increasing and e^0 = 1
OmeSign(v) == IF RLt(v.ome, Zero) THEN 1 ELSE IF v.ome = Zero THEN 0 ELSE -1
\* jnp.sqrt of 1 - e^r: NaN where 1 - e^r < 0
SqrtOme(v) == [nan |-> OmeSign(v) < 0, ome |-> v.ome]
\* x - x0 * e^r = 0 for rational x, x0, r: r = 0 and x = x0, or x = x0 = 0
DiffIsZero(x, m) ==
  \/ m.exparg = Zero /\ x = m.coef
  \/ x = Zero /\ m.coef = Zero
\* (x - mean) / std**2 in jax arithmetic: the class of the quotient
QuotClass(x, mean, std) ==
  IF std.nan THEN "nan"
  ELSE IF std.ome = Zero
       THEN (IF DiffIsZero(x, mean) THEN "nan" ELSE "inf")
  ELSE "finite"

(* ---------------------------- score functions -------------------------- *)
ScoreFns == {"zero", "negx", "xt"}

score_fn(id, x, t) ==
  CASE id = "zero" -> Zero
    [] id = "negx" -> RNeg(x)
    [] id = "xt"   -> RMul(x, t)

(* ------------------------------ SDE.__init__ --------------------------- *)
\* jnp.linspace(start, stop, num): ValueError for num < 0
linspace_raises(num) == num < 0

\* linspace with endpoint=False: the step is (stop - start) / num
linspace_noendpoint(start, stop, num) ==
  IF num = 1 THEN <<start>>
  ELSE [i \in 1..num |->
          RAdd(start, RMul(Whole(i - 1), RDiv(RSub(stop, start), Whole(num))))]

linspace(start, stop, num) ==
  IF num = 1 THEN <<start>>
  ELSE [i \in 1..num |->
          RAdd(start, RMul(Whole(i - 1), RDiv(RSub(stop, start), Whole(num - 1))))]

\* s[:-1]
DropLast(s) == IF Len(s) = 0 THEN s ELSE SubSeq(s, 1, Len(s) - 1)

NoObject ==
  [status |-> "none", cls |-> "none", n_steps |-> 0,
   beta_min |-> Zero, beta_max |-> Zero, train_ts |-> <<>>]

\* SDE.__init__(self, n_steps)
SDE_init(self, n_steps) ==
  IF linspace_raises(n_steps + 1)
  THEN [self EXCEPT !.status = "raised", !.n_steps = n_steps]
  ELSE [self EXCEPT !.status = "ok", !.n_steps = n_steps,
                    !.train_ts = DropLast(linspace(Zero, One, n_steps + 1))]

\* OU.__init__(self, beta_min, beta_max, n_steps)
OU_init(beta_min, beta_max, n_steps) ==
  LET base == SDE_init([NoObject EXCEPT !.cls = "OU"], n_steps)
  IN  IF base.status = "raised" THEN base
      ELSE [base EXCEPT !.beta_min = beta_min, !.beta_max = beta_max]

(* ------------------------------ results -------------------------------- *)
Returned(v) == [outcome |-> "returned", exc |-> "none", val |-> v]
Raised(e) == [outcome |-> "raised", exc |-> e, val |-> <<>>]

(* --------------------------------- OU ---------------------------------- *)
\* OU.sde(self, x, t) -> (drift, diffusion)
OU_sde(self, x, t) ==
  LET beta_t == RAdd(self.beta_min, RMul(t, RSub(self.beta_max, self.beta_min)))
      drift == RMul(RMul(RNeg(Half), beta_t), x)
      diffusion == Sqrt(beta_t)
  IN  <<drift, diffusion>>

\* SDE.discretize with G = diffusion * dt, the square root dropped
SDE_discretize_nosqrt(self, x, t) ==
  IF self.n_steps = 0 THEN Raised("ZeroDivisionError")
  ELSE LET dt == Rat(1, self.n_steps)
           sd == OU_sde(self, x, t)
           f == RMul(sd[1], dt)
           G == SurdMul(sd[2], Sqrt(RMul(dt, dt)))
       IN  Returned(<<f, G>>)

\* SDE.discretize(self, x, t) -> (f, G); 1. / 0 raises ZeroDivisionError
SDE_discretize(self, x, t) ==
  IF self.n_steps = 0 THEN Raised("ZeroDivisionError")
  ELSE LET dt == Rat(1, self.n_steps)
           sd == OU_sde(self, x, t)
           f == RMul(sd[1], dt)
           G == SurdMul(sd[2], Sqrt(dt))
       IN  Returned(<<f, G>>)

\* OU.log_mean_coeff with the sign of the linear term lost
OU_log_mean_coeff_pos(self, t) ==
  RSub(RMul(RMul(Half, t), self.beta_min),
       RMul(RMul(Quarter, RMul(t, t)), RSub(self.beta_max, self.beta_min)))

\* OU.log_mean_coeff(self, t)
OU_log_mean_coeff(self, t) ==
  RSub(RMul(RMul(RNeg(Half), t), self.beta_min),
       RMul(RMul(Quarter, RMul(t, t)), RSub(self.beta_max, self.beta_min)))

\* OU.mean_coeff(self, t)
OU_mean_coeff(self, t) == Exp(OU_log_mean_coeff(self, t))

\* OU.variance(self, t)
OU_variance(self, t) == OneMinusExp(Exp(RMul(Whole(2), OU_log_mean_coeff(self, t))))

\* OU.marginal_prob(self, x, t) -> (mean, std)
OU_marginal_prob(self, x, t) ==
  LET m == OU_mean_coeff(self, t)
      mean == ExpScale(m, x)
      std == SqrtOme(OU_variance(self, t))
  IN  <<mean, std>>

\* OU.forward_potential(self, x_0, x, t): (x - mean) / std**2
OU_forward_potential(self, x_0, x, t) ==
  LET mp == OU_marginal_prob(self, x_0, t)
  IN  [x |-> x, mean |-> mp[1], std |-> mp[2], cls |-> QuotClass(x, mp[1], mp[2])]

(* ------------------------------ OU.reverse ----------------------------- *)
NoReverse ==
  [status |-> "none", cls |-> "none", score |-> "none", train_ts |-> <<>>,
   attrs |-> {}]

\* OU.reverse(self, score_fn): RSDE.__init__ sets train_ts only and does not
\* call OU.__init__; sde_fn and discretize_fn are the forward object's bound
\* methods.  attrs: the instance attributes the object has
OU_reverse(self, score) ==
  [status |-> "ok", cls |-> "RSDE", score |-> score, train_ts |-> self.train_ts,
   attrs |-> {"train_ts"}]

\* marginal_prob inherited by RSDE from OU, evaluated on the reverse object:
\* log_mean_coeff reads self.beta_min and self.beta_max
RSDE_marginal_prob(rev, x, t) ==
  IF {"beta_min", "beta_max"} \subseteq rev.attrs
  THEN Returned(OU_marginal_prob(rev, x, t))
  ELSE Raised("AttributeError")

\* the update rule of the discretize docstrings: x_{i+1} = x_i + f_i(x_i) + G_i z_i
\* with z_i = 0
NoNoiseUpdate(x, f) == RAdd(x, f)

\* RSDE.sde with the score term added instead of subtracted
RSDE_sde_plus(fwd, rev, x, t) ==
  LET sd == OU_sde(fwd, x, t)
      score == score_fn(rev.score, x, t)
      drift == RAdd(sd[1], RMul(SurdSq(sd[2]), score))
  IN  <<drift, sd[2]>>

\* RSDE.sde(x, t); sde_fn = fwd.sde
RSDE_sde(fwd, rev, x, t) ==
  LET sd == OU_sde(fwd, x, t)
      score == score_fn(rev.score, x, t)
      drift == RSub(sd[1], RMul(SurdSq(sd[2]), score))
  IN  <<drift, sd[2]>>

\* RSDE.discretize as dt times the continuous reverse drift: f - G**2 * score
RSDE_discretize_cont(fwd, rev, x, t) ==
  LET r == SDE_discretize(fwd, x, t)
  IN  IF r.outcome = "raised" THEN r
      ELSE LET f == r.val[1]
               G == r.val[2]
               rev_f == RSub(f, RMul(SurdSq(G), score_fn(rev.score, x, t)))
           IN  Returned(<<rev_f, G>>)

\* RSDE.discretize without the negation of f
RSDE_discretize_nosign(fwd, rev, x, t) ==
  LET r == SDE_discretize(fwd, x, t)
  IN  IF r.outcome = "raised" THEN r
      ELSE LET f == r.val[1]
               G == r.val[2]
               rev_f == RAdd(f, RMul(SurdSq(G), score_fn(rev.score, x, t)))
           IN  Returned(<<rev_f, G>>)

\* RSDE.discretize(x, t); discretize_fn = fwd.discretize
RSDE_discretize(fwd, rev, x, t) ==
  LET r == SDE_discretize(fwd, x, t)
  IN  IF r.outcome = "raised" THEN r
      ELSE LET f == r.val[1]
               G == r.val[2]
               rev_f == RAdd(RNeg(f), RMul(SurdSq(G), score_fn(rev.score, x, t)))
           IN  Returned(<<rev_f, G>>)

(* ------------------------------- get_sde ------------------------------- *)
DefaultNSteps == 1000
DefaultBetaMin == <<1, 1000>>
DefaultBetaMax == <<3, 1>>

SdeStrings == {"OU", "ou", "VE", "vpsde"}

NoGot == [fn |-> "none", arg |-> "none", outcome |-> "none", exc |-> "none",
          kind |-> "none", obj |-> NoObject]

\* sgm.sde.get_sde(sde_string)
sgm_get_sde(sde_string) ==
  IF sde_string = "OU"
  THEN [fn |-> "sgm.get_sde", arg |-> sde_string, outcome |-> "returned",
        exc |-> "none", kind |-> "OU",
        obj |-> OU_init(DefaultBetaMin, DefaultBetaMax, DefaultNSteps)]
  ELSE [fn |-> "sgm.get_sde", arg |-> sde_string, outcome |-> "returned",
        exc |-> "none", kind |-> "NotImplementedError", obj |-> NoObject]

ConfigSdes == {"vpsde", "VPSDE", "vesde", "VESDE", "OU", "subvp"}

\* str.lower() on the configured names
Lower(str) ==
  CASE str = "VPSDE" -> "vpsde"
    [] str = "VESDE" -> "vesde"
    [] str = "OU" -> "ou"
    [] OTHER -> str

\* run_lib.get_sde(config); has_SDE: config.training has an attribute SDE,
\* which the error message of the else branch reads
run_lib_get_sde(training_sde, has_SDE) ==
  LET base == [NoGot EXCEPT !.fn = "run_lib.get_sde", !.arg = training_sde]
  IN  IF Lower(training_sde) = "vpsde"
      THEN [base EXCEPT !.outcome = "returned", !.kind = "VP"]
      ELSE IF Lower(training_sde) = "vesde"
      THEN [base EXCEPT !.outcome = "returned", !.kind = "VE"]
      ELSE IF has_SDE
      THEN [base EXCEPT !.outcome = "raised", !.exc = "NotImplementedError"]
      ELSE [base EXCEPT !.outcome = "raised", !.exc = "AttributeError"]

(* ------------------------------- state --------------------------------- *)
\* the SDE core: the forward object, the reverse object, the last call and
\* its result, the result of a factory
VARIABLES sde, rsde, ret, got
sdevars == <<sde, rsde, ret, got>>

\* diffusionjax.utils: the schedule returned by get_times, the last
\* get_timestep call
VARIABLES sched, tstep
timesvars == <<sched, tstep>>

\* run_lib.train on one process: configuration and process index, the
\* preemption checkpoint found in workdir, the position in the function, the
\* exception that ended it, and its local variables
VARIABLES cfg, meta_ckpt, pc, exc, state, initial_step, step, rng, i_epoch,
          i_batch, n_evals, saved_state, meta_saves, ckpt_saves, outer_solver,
          samples, mean_losses
trainvars == <<cfg, meta_ckpt, pc, exc, state, initial_step, step, rng, i_epoch,
               i_batch, n_evals, saved_state, meta_saves, ckpt_saves,
               outer_solver, samples, mean_losses>>

vars == <<sdevars, timesvars, trainvars>>

\* the last call: its receiver's score function, its arguments, its result
NoRet == [op |-> "none", x |-> Zero, t |-> Zero, x_0 |-> Zero, score |-> "none",
          res |-> [outcome |-> "none", exc |-> "none", val |-> <<>>]]

NStepsSet == (-NegSteps)..MaxSteps
BetaSet == {Rat(b, 2) : b \in 0..MaxBeta}
XSet == {Whole(x) : x \in (-MaxX)..MaxX}
TGrid == {Rat(k, TDen) : k \in 0..TDen}
\* the times a caller evaluates at: a grid on [0,1] and the object's schedule
Times(ts) == TGrid \cup {ts[i] : i \in 1..Len(ts)}

\* no SDE object, no call
SdeIdle ==
  /\ sde = NoObject
  /\ rsde = NoReverse
  /\ ret = NoRet
  /\ got = NoGot

\* get_times not called yet
NoSched == [status |-> "none", num_steps |-> 0, dt |-> Zero, ts |-> <<>>]
NoTimestep == [called |-> FALSE, i |-> 0, t |-> Zero, val |-> 0]

TimesIdle ==
  /\ sched = NoSched
  /\ tstep = NoTimestep

\* State(step=0, opt_state, params, lr, rng) of a freshly initialised model;
\* params and opt_state count the optimisation steps applied, rng the splits
State0 == [step |-> 0, params |-> 0, opt_state |-> 0, rng |-> 0]

NoCkpt == [present |-> FALSE, id |-> 0, saved_at |-> 0, state |-> State0]
NoSavedState == [bound |-> FALSE, state |-> State0]
NoSolver == [built |-> FALSE, score_params |-> 0, built_at |-> 0]

NoCfg ==
  [n_jitted_steps |-> 1, snapshot_freq |-> 1, snapshot_freq_for_preemption |-> 1,
   eval_freq |-> 1, log_step_freq |-> 1, log_epoch_freq |-> 1, n_iters |-> 0,
   n_batches |-> 0, snapshot_sampling |-> FALSE, process_index |-> 0]

\* the local variables of train before its first statement
TrainLocals0 ==
  /\ exc = "none"
  /\ state = State0
  /\ initial_step = 0
  /\ step = 0
  /\ rng = 0
  /\ i_epoch = 0
  /\ i_batch = 0
  /\ n_evals = 0
  /\ saved_state = NoSavedState
  /\ meta_saves = <<>>
  /\ ckpt_saves = <<>>
  /\ outer_solver = NoSolver
  /\ samples = <<>>
  /\ mean_losses = <<>>

\* train not called
TrainIdle ==
  /\ cfg = NoCfg
  /\ meta_ckpt = NoCkpt
  /\ pc = "idle"
  /\ TrainLocals0

Init ==
  /\ SdeIdle
  /\ TimesIdle
  /\ TrainIdle

\* sde = OU(beta_min, beta_max, n_steps); a caller obtains its SDE either
\* from the constructor or from a factory
Construct ==
  /\ sde.status = "none"
  /\ got.fn = "none"
  /\ \E bmin \in BetaSet, bmax \in BetaSet, n \in NStepsSet :
        sde' = OU_init(bmin, bmax, n)
  /\ UNCHANGED <<rsde, ret, got, timesvars, trainvars>>

\* sde.sde(x, t)
CallSde ==
  /\ sde.status = "ok"
  /\ ret.op = "none"
  /\ \E x \in XSet, t \in Times(sde.train_ts) :
        ret' = [op |-> "sde", x |-> x, t |-> t, x_0 |-> Zero,
                score |-> "none", res |-> Returned(OU_sde(sde, x, t))]
  /\ UNCHANGED <<sde, rsde, got, timesvars, trainvars>>

\* sde.marginal_prob(x, t)
CallMarginalProb ==
  /\ sde.status = "ok"
  /\ ret.op = "none"
  /\ \E x \in XSet, t \in Times(sde.train_ts) :
        ret' = [op |-> "marginal_prob", x |-> x, t |-> t, x_0 |-> Zero,
                score |-> "none", res |-> Returned(OU_marginal_prob(sde, x, t))]
  /\ UNCHANGED <<sde, rsde, got, timesvars, trainvars>>

\* sde.discretize(x, t)
CallDiscretize ==
  /\ sde.status = "ok"
  /\ ret.op = "none"
  /\ \E x \in XSet, t \in Times(sde.train_ts) :
        ret' = [op |-> "discretize", x |-> x, t |-> t, x_0 |-> Zero,
                score |-> "none", res |-> SDE_discretize(sde, x, t)]
  /\ UNCHANGED <<sde, rsde, got, timesvars, trainvars>>

\* sde.forward_potential(x_0, x, t)
CallForwardPotential ==
  /\ sde.status = "ok"
  /\ ret.op = "none"
  /\ \E x_0 \in XSet, x \in XSet, t \in Times(sde.train_ts) :
        ret' = [op |-> "forward_potential", x |-> x, t |-> t, x_0 |-> x_0,
                score |-> "none", res |-> Returned(OU_forward_potential(sde, x_0, x, t))]
  /\ UNCHANGED <<sde, rsde, got, timesvars, trainvars>>

\* reverse() that reverses the schedule of the forward object in place
Reverse_inplace ==
  /\ sde.status = "ok"
  /\ \E score \in ScoreFns : rsde' = OU_reverse(sde, score)
  /\ sde' = [sde EXCEPT !.train_ts =
                [i \in 1..Len(sde.train_ts) |->
                   sde.train_ts[Len(sde.train_ts) + 1 - i]]]
  /\ UNCHANGED <<ret, got, timesvars, trainvars>>

\* rsde = sde.reverse(score_fn)
Reverse ==
  /\ sde.status = "ok"
  /\ \E score \in ScoreFns : rsde' = OU_reverse(sde, score)
  /\ UNCHANGED <<sde, ret, got, timesvars, trainvars>>

\* rsde.sde(x, t)
RCallSde ==
  /\ rsde.status = "ok"
  /\ ret.op = "none"
  /\ \E x \in XSet, t \in Times(rsde.train_ts) :
        ret' = [op |-> "rsde.sde", x |-> x, t |-> t, x_0 |-> Zero,
                score |-> rsde.score, res |-> Returned(RSDE_sde(sde, rsde, x, t))]
  /\ UNCHANGED <<sde, rsde, got, timesvars, trainvars>>

\* rsde.discretize(x, t)
RCallDiscretize ==
  /\ rsde.status = "ok"
  /\ ret.op = "none"
  /\ \E x \in XSet, t \in Times(rsde.train_ts) :
        ret' = [op |-> "rsde.discretize", x |-> x, t |-> t, x_0 |-> Zero,
                score |-> rsde.score, res |-> RSDE_discretize(sde, rsde, x, t)]
  /\ UNCHANGED <<sde, rsde, got, timesvars, trainvars>>

\* rsde.marginal_prob(x, t)
RCallMarginalProb ==
  /\ rsde.status = "ok"
  /\ ret.op = "none"
  /\ \E x \in XSet, t \in Times(rsde.train_ts) :
        ret' = [op |-> "rsde.marginal_prob", x |-> x, t |-> t, x_0 |-> Zero,
                score |-> rsde.score, res |-> RSDE_marginal_prob(rsde, x, t)]
  /\ UNCHANGED <<sde, rsde, got, timesvars, trainvars>>

\* x1 = x + f(x, t) with sde.discretize, then x2 = x1 + rev_f(x1, t) with
\* rsde.discretize, both without noise; the result is <<x1, x2>>
NoNoiseRoundTrip ==
  /\ rsde.status = "ok"
  /\ ret.op = "none"
  /\ \E x \in XSet, t \in Times(rsde.train_ts) :
        LET fr == SDE_discretize(sde, x, t)
            x1 == NoNoiseUpdate(x, fr.val[1])
            rr == RSDE_discretize(sde, rsde, x1, t)
            x2 == NoNoiseUpdate(x1, rr.val[1])
        IN  ret' = [op |-> "roundtrip", x |-> x, t |-> t, x_0 |-> Zero,
                    score |-> rsde.score,
                    res |-> IF fr.outcome = "raised" THEN fr
                            ELSE IF rr.outcome = "raised" THEN rr
                            ELSE Returned(<<x1, x2>>)]
  /\ UNCHANGED <<sde, rsde, got, timesvars, trainvars>>

\* the caller takes the result of the last call; the next call follows
TakeResult ==
  /\ ret.op # "none"
  /\ ret' = NoRet
  /\ UNCHANGED <<sde, rsde, got, timesvars, trainvars>>

\* sgm.sde.get_sde(sde_string)
GetSde ==
  /\ sde.status = "none"
  /\ got.fn = "none"
  /\ \E str \in SdeStrings : got' = sgm_get_sde(str)
  /\ UNCHANGED <<sde, rsde, ret, timesvars, trainvars>>

\* diffusionjax.run_lib.get_sde(config)
RunLibGetSde ==
  /\ sde.status = "none"
  /\ got.fn = "none"
  /\ \E str \in ConfigSdes, has_SDE \in BOOLEAN : got' = run_lib_get_sde(str, has_SDE)
  /\ UNCHANGED <<sde, rsde, ret, timesvars, trainvars>>

Next ==
  \/ Construct
  \/ CallSde
  \/ CallMarginalProb
  \/ CallDiscretize
  \/ CallForwardPotential
  \/ Reverse
  \/ RCallSde
  \/ RCallDiscretize
  \/ RCallMarginalProb
  \/ NoNoiseRoundTrip
  \/ TakeResult
  \/ GetSde
  \/ RunLibGetSde

Spec == Init /\ [][Next]_vars

(* ------------------- diffusionjax.utils: time schedule ----------------- *)
\* an optional argument: None or a value
NoneArg == [given |-> FALSE, v |-> Zero]
Given(v) == [given |-> TRUE, v |-> v]

\* get_times(num_steps, dt, t0) -> (ts, dt): num_steps times spaced by dt
\* from t0; dt defaults to (1 - t0) / (num_steps - 1) when t0 is given and
\* to 1 / num_steps otherwise, t0 defaults to dt
get_times(num_steps, dt, t0) ==
  LET dt_eff == IF dt.given THEN dt.v
                ELSE IF t0.given
                     THEN RDiv(RSub(One, t0.v), Whole(num_steps - 1))
                     ELSE Rat(1, num_steps)
      t0_eff == IF t0.given THEN t0.v ELSE dt_eff
  IN  [status |-> "ok", num_steps |-> num_steps, dt |-> dt_eff,
       ts |-> [i \in 1..num_steps |-> RAdd(t0_eff, RMul(Whole(i - 1), dt_eff))]]

\* round to the nearest integer
RoundNearest(r) == (2 * r[1] + r[2]) \div (2 * r[2])

\* get_timestep scaling by num_steps instead of num_steps - 1
get_timestep_offbyone(t, t0, t1, num_steps) ==
  RoundNearest(RDiv(RMul(RSub(t, t0), Whole(num_steps)), RSub(t1, t0)))

\* get_timestep(t, t0, t1, num_steps): the index of t on the uniform grid of
\* num_steps times from t0 to t1
get_timestep(t, t0, t1, num_steps) ==
  RoundNearest(RDiv(RMul(RSub(t, t0), Whole(num_steps - 1)), RSub(t1, t0)))

NumStepsArgs == 2..MaxTimes
DtArgs == {NoneArg, Given(Rat(1, 10)), Given(Rat(1, 20))}
T0Args == {NoneArg, Given(Rat(1, 100)), Given(Rat(1, 10))}

\* ts, dt = get_times(num_steps, dt, t0)
GetTimes ==
  /\ sched.status = "none"
  /\ \E n \in NumStepsArgs, dt \in DtArgs, t0 \in T0Args :
        sched' = get_times(n, dt, t0)
  /\ UNCHANGED <<tstep, sdevars, trainvars>>

\* get_timestep(ts[i], ts[0], ts[-1], jnp.size(ts)), i counted from 0
GetTimestep ==
  /\ sched.status = "ok"
  /\ \E i \in 1..Len(sched.ts) :
        tstep' = [called |-> TRUE, i |-> i - 1, t |-> sched.ts[i],
                  val |-> get_timestep(sched.ts[i], sched.ts[1],
                                       sched.ts[Len(sched.ts)], Len(sched.ts))]
  /\ UNCHANGED <<sched, sdevars, trainvars>>

NextTimes ==
  \/ GetTimes
  \/ GetTimestep

SpecTimes == Init /\ [][NextTimes]_vars

(* ---------------------------- run_lib.train --------------------------- *)
\* config.training and the process: the frequencies, the number of epochs
\* n_iters, len(train_dataloader), snapshot_sampling, jax.process_index()
Configs ==
  [n_jitted_steps : 1..MaxJit,
   snapshot_freq : 1..MaxFreq,
   snapshot_freq_for_preemption : 1..MaxFreq,
   eval_freq : 1..MaxLogFreq,
   log_step_freq : 1..MaxLogFreq,
   log_epoch_freq : 1..MaxLogFreq,
   n_iters : 1..MaxIters,
   n_batches : 1..MaxBatches,
   snapshot_sampling : BOOLEAN,
   process_index : 0..MaxProc]

\* the preemption checkpoint an earlier run of train left at loop step
\* saved_at: identifier saved_at // snapshot_freq_for_preemption, and the
\* state saved there (state.step is never advanced by the loop)
EarlierCkpt(c) ==
  [present |-> TRUE, id |-> 1, saved_at |-> c.snapshot_freq_for_preemption,
   state |-> [step |-> 0,
              params |-> c.snapshot_freq_for_preemption,
              opt_state |-> c.snapshot_freq_for_preemption,
              rng |-> c.snapshot_freq_for_preemption]]

\* meta_checkpoint_manager.latest_step() / restore(save_step, items=state):
\* the value restore returns
Restore(ckpt) == ckpt.state

\* the state train continues with after the restore: the return value of
\* restore is not assigned, state stays the fresh State
StateAfterRestore(fresh, ckpt) == fresh

\* the assertion on the frequencies
AssertFreqs(c) ==
  /\ c.log_step_freq % c.n_jitted_steps = 0
  /\ c.snapshot_freq_for_preemption % c.n_jitted_steps = 0
  /\ c.eval_freq % c.n_jitted_steps = 0
  /\ c.snapshot_freq % c.n_jitted_steps = 0

\* the condition of the preemption checkpoint
PreemptionDue(s, c) ==
  s # 0 /\ s % c.snapshot_freq_for_preemption = 0 /\ c.process_index = 0

\* the condition of the evaluation
EvalDue(s, c) == s % c.eval_freq = 0

\* the snapshot condition with `and` where the source has `or`
SnapshotDue_and(s, c) == s # 0 /\ s % c.snapshot_freq = 0 /\ s = c.n_iters

\* the condition of the regular checkpoint
SnapshotDue(s, c) == (s # 0 /\ s % c.snapshot_freq = 0) \/ s = c.n_iters

\* the sampler's score built from the parameters train started with
SnapshotScoreParams_initial(saved, initial) == initial.params

\* get_score(sde, model, saved_state.params, ...): the parameters of the
\* score the sampler's reverse SDE is built from
SnapshotScoreParams(saved, initial) == saved.params

\* get_solver(config, sde, score): EulerMaruyama(sde.reverse(score)), built
\* at loop step at
get_solver(score_params, at) ==
  [built |-> TRUE, score_params |-> score_params, built_at |-> at]

\* a.at[i].set(v) on a jax array: an index out of bounds is dropped
AtSet(a, i, v) == IF i + 1 \in 1..Len(a) THEN [a EXCEPT ![i + 1] = v] ELSE a

\* jnp.mean(losses) of epoch e, a non-zero value of its own
MeanLoss(e) == e

InitTrain ==
  /\ SdeIdle
  /\ TimesIdle
  /\ cfg \in Configs
  /\ meta_ckpt \in {NoCkpt, EarlierCkpt(cfg)}
  /\ pc = "start"
  /\ TrainLocals0

\* train up to the loop: state, restore, initial_step, solver, assertion
TrainStart ==
  /\ pc = "start"
  /\ LET fresh == State0
         st == IF meta_ckpt.present
               THEN StateAfterRestore(fresh, Restore(meta_ckpt))
               ELSE fresh
     IN  /\ state' = st
         /\ initial_step' = st.step
         /\ step' = st.step
         /\ rng' = st.rng
         /\ outer_solver' = get_solver(fresh.params, 0)
  /\ IF AssertFreqs(cfg)
     THEN /\ pc' = "loop"
          /\ i_epoch' = 1
          /\ mean_losses' = [e \in 1..cfg.n_iters |-> 0]
          /\ exc' = exc
     ELSE /\ pc' = "raised"
          /\ exc' = "AssertionError"
          /\ UNCHANGED <<i_epoch, mean_losses>>
  /\ UNCHANGED <<cfg, meta_ckpt, i_batch, n_evals, saved_state, meta_saves,
                 ckpt_saves, samples, sdevars, timesvars>>

\* one iteration of the batch loop
TrainBatch ==
  /\ pc = "loop"
  /\ i_batch < cfg.n_batches
  /\ LET proc == cfg.process_index
         rng1 == rng + 1
         st1 == [state EXCEPT !.params = @ + cfg.n_jitted_steps,
                              !.opt_state = @ + cfg.n_jitted_steps]
         step1 == IF proc = 0 THEN step + cfg.n_jitted_steps ELSE step
         pre == PreemptionDue(step1, cfg)
         saved1 == IF pre THEN [bound |-> TRUE, state |-> [st1 EXCEPT !.rng = rng1]]
                   ELSE saved_state
         meta1 == IF pre
                  THEN Append(meta_saves,
                              [id |-> step1 \div cfg.snapshot_freq_for_preemption,
                               step |-> step1, state |-> saved1.state])
                  ELSE meta_saves
         ev == EvalDue(step1, cfg)
         stop == ev /\ n_evals >= cfg.n_batches
         rng2 == IF ev THEN rng1 + 1 ELSE rng1
         snap == ~stop /\ SnapshotDue(step1, cfg)
         saved2 == IF snap /\ proc = 0
                   THEN [bound |-> TRUE, state |-> [st1 EXCEPT !.rng = rng2]]
                   ELSE saved1
         ckpt1 == IF snap /\ proc = 0
                  THEN Append(ckpt_saves,
                              [id |-> step1 \div cfg.snapshot_freq,
                               step |-> step1, state |-> saved2.state])
                  ELSE ckpt_saves
         sampling == snap /\ cfg.snapshot_sampling
         unbound == sampling /\ ~saved2.bound
         solver1 == IF sampling /\ ~unbound
                    THEN get_solver(SnapshotScoreParams(saved2.state, State0), step1)
                    ELSE outer_solver
     IN  /\ state' = st1
         /\ step' = step1
         /\ saved_state' = saved2
         /\ meta_saves' = meta1
         /\ ckpt_saves' = ckpt1
         /\ outer_solver' = solver1
         /\ n_evals' = IF ev /\ ~stop THEN n_evals + 1 ELSE n_evals
         /\ rng' = IF sampling /\ ~unbound THEN rng2 + 1 ELSE rng2
         /\ samples' = IF sampling /\ ~unbound
                       THEN Append(samples,
                                   [step |-> step1, process |-> proc,
                                    solver |-> solver1])
                       ELSE samples
         /\ IF stop
            THEN pc' = "raised" /\ exc' = "StopIteration" /\ i_batch' = i_batch
            ELSE IF unbound
            THEN pc' = "raised" /\ exc' = "UnboundLocalError: saved_state"
                 /\ i_batch' = i_batch
            ELSE pc' = pc /\ exc' = exc /\ i_batch' = i_batch + 1
  /\ UNCHANGED <<cfg, meta_ckpt, initial_step, i_epoch, mean_losses, sdevars,
                 timesvars>>

\* the end of an epoch: mean loss, mean_losses, next epoch
EpochEnd ==
  /\ pc = "loop"
  /\ i_batch = cfg.n_batches
  /\ mean_losses' =
        IF cfg.process_index = 0 /\ i_epoch % cfg.log_epoch_freq = 0
        THEN AtSet(mean_losses, i_epoch, MeanLoss(i_epoch))
        ELSE mean_losses
  /\ IF i_epoch = cfg.n_iters
     THEN pc' = "finish" /\ UNCHANGED <<i_epoch, i_batch, n_evals>>
     ELSE pc' = pc /\ i_epoch' = i_epoch + 1 /\ i_batch' = 0 /\ n_evals' = 0
  /\ UNCHANGED <<cfg, meta_ckpt, exc, state, initial_step, step, rng, saved_state,
                 meta_saves, ckpt_saves, outer_solver, samples, sdevars, timesvars>>

\* after the loop: run.log_artifact (run is bound on process 0 only), return
TrainFinish ==
  /\ pc = "finish"
  /\ IF cfg.process_index = 0
     THEN pc' = "done" /\ exc' = exc
     ELSE pc' = "raised" /\ exc' = "UnboundLocalError: run"
  /\ UNCHANGED <<cfg, meta_ckpt, state, initial_step, step, rng, i_epoch, i_batch,
                 n_evals, saved_state, meta_saves, ckpt_saves, outer_solver,
                 samples, mean_losses, sdevars, timesvars>>

NextTrain ==
  \/ TrainStart
  \/ TrainBatch
  \/ EpochEnd
  \/ TrainFinish

SpecTrain == InitTrain /\ [][NextTrain]_vars


(* ------------------------------ properties ----------------------------- *)
\* beta(t) = beta_min + t * (beta_max - beta_min) of the constructed SDE
Beta(t) == RAdd(sde.beta_min, RMul(t, RSub(sde.beta_max, sde.beta_min)))

\* C1: sde(x,t) of the reverse object returns
\* (drift - diffusion^2 * score_fn(x,t), diffusion), where (drift, diffusion)
\* is the forward SDE's sde(x,t); the diffusion is returned unchanged.
C1_ReverseSde ==
  ret.op = "rsde.sde" =>
    LET fw == OU_sde(sde, ret.x, ret.t)
        score == score_fn(ret.score, ret.x, ret.t)
    IN  /\ ret.res.outcome = "returned"
        /\ ret.res.val[1] = RSub(fw[1], RMul(SurdSq(fw[2]), score))
        /\ ret.res.val[1] =
             RSub(RMul(RMul(RNeg(Half), Beta(ret.t)), ret.x), RMul(Beta(ret.t), score))
        /\ ret.res.val[2] = fw[2]

\* a reverse sde call whose score term changes the forward drift
C1_Witness ==
  /\ ret.op = "rsde.sde"
  /\ ret.score = "negx"
  /\ ret.res.val[1] # OU_sde(sde, ret.x, ret.t)[1]

\* C2: discretize(x,t) of the reverse object returns (rev_f, G) with
\* rev_f = -f + G^2 * score_fn(x,t), (f, G) being the forward discretize(x,t)
\* at the same (x,t), G unchanged; rev_f is this formula also where it differs
\* from dt times the continuous reverse drift.
C2_ReverseDiscretize ==
  ret.op = "rsde.discretize" =>
    LET fr == SDE_discretize(sde, ret.x, ret.t)
        score == score_fn(ret.score, ret.x, ret.t)
    IN  IF fr.outcome = "raised" THEN ret.res.outcome = "raised"
        ELSE /\ ret.res.outcome = "returned"
             /\ ret.res.val[1] = RAdd(RNeg(fr.val[1]), RMul(SurdSq(fr.val[2]), score))
             /\ ret.res.val[2] = fr.val[2]

\* dt times the continuous reverse drift at the last call's (x, t)
ContinuousStep ==
  RMul(RSDE_sde(sde, [score |-> ret.score], ret.x, ret.t)[1], Rat(1, sde.n_steps))

\* a reverse discretize call whose rev_f is not dt times the continuous
\* reverse drift
C2_Witness ==
  /\ ret.op = "rsde.discretize"
  /\ ret.res.outcome = "returned"
  /\ sde.n_steps >= 1
  /\ ret.score = "xt"
  /\ IsFinite(ret.res.val[1])
  /\ ret.res.val[1] # ContinuousStep

\* C3: with the identically zero score, on an SDE with n_steps >= 1, the
\* reverse discretize(x,t) returns rev_f = -f and the same G as the forward
\* discretize(x,t).
C3_ZeroScore ==
  (ret.op = "rsde.discretize" /\ ret.score = "zero" /\ sde.n_steps >= 1) =>
    LET fr == SDE_discretize(sde, ret.x, ret.t)
    IN  /\ ret.res.outcome = "returned"
        /\ ret.res.val[1] = RNeg(fr.val[1])
        /\ ret.res.val[2] = fr.val[2]

\* a zero-score reverse discretize call with a non-zero forward f
C3_Witness ==
  /\ ret.op = "rsde.discretize"
  /\ ret.score = "zero"
  /\ sde.n_steps >= 1
  /\ ret.res.val[1] # Zero
  /\ ret.res.val[1] = RNeg(SDE_discretize(sde, ret.x, ret.t).val[1])

\* C4: for n_steps >= 1 the schedule train_ts built at construction has
\* exactly n_steps elements, is strictly increasing, and consecutive elements
\* differ by dt = 1/n_steps, the dt that discretize multiplies the drift by.
C4_Schedule ==
  (sde.status = "ok" /\ sde.n_steps >= 1) =>
    LET ts == sde.train_ts
        dt == Rat(1, sde.n_steps)
    IN  /\ Len(ts) = sde.n_steps
        /\ \A i \in 1..(Len(ts) - 1) :
              /\ RLt(ts[i], ts[i + 1])
              /\ RSub(ts[i + 1], ts[i]) = dt
        /\ (ret.op = "discretize" /\ Len(ts) >= 2) =>
              ret.res.val[1] =
                RMul(OU_sde(sde, ret.x, ret.t)[1], RSub(ts[2], ts[1]))

\* a three-step schedule whose spacing a discretize call has used
C4_Witness ==
  /\ sde.status = "ok"
  /\ sde.n_steps = 3
  /\ Len(sde.train_ts) = 3
  /\ ret.op = "discretize"
  /\ ret.res.val[1] # Zero

\* C5: for n_steps >= 1 the first element of the schedule equals
\* dt = 1/n_steps, and every schedule time lies in (0, 1].
C5_FirstIsDt ==
  (sde.status = "ok" /\ sde.n_steps >= 1) =>
    /\ sde.train_ts[1] = Rat(1, sde.n_steps)
    /\ \A i \in 1..Len(sde.train_ts) :
          RLt(Zero, sde.train_ts[i]) /\ RLe(sde.train_ts[i], One)

\* C6: for n_steps >= 1 the last element of the schedule equals 1.
C6_LastIsOne ==
  (sde.status = "ok" /\ sde.n_steps >= 1) =>
    sde.train_ts[Len(sde.train_ts)] = One

\* the names each factory supports
Recognised ==
  \/ got.fn = "sgm.get_sde" /\ got.arg = "OU"
  \/ got.fn = "run_lib.get_sde" /\ Lower(got.arg) \in {"vpsde", "vesde"}

\* C7: get_sde with an unsupported name raises NotImplementedError and
\* returns nothing; with a supported name it returns an SDE instance.
C7_GetSdeRaises ==
  got.fn # "none" =>
    IF Recognised
    THEN got.outcome = "returned" /\ got.kind \in {"OU", "VP", "VE"}
    ELSE got.outcome = "raised" /\ got.exc = "NotImplementedError"

\* C8: once the constructor has accepted its parameters, sde, marginal_prob
\* and discretize raise no exception for any x and t.
C8_CallsAreTotal ==
  (sde.status = "ok" /\ ret.op \in {"sde", "marginal_prob", "discretize"}) =>
    ret.res.outcome = "returned"

\* C9: with beta_min > 0 and beta_max > 0, at every time of train_ts the
\* marginal std is in (0, 1] and the mean coefficient in (0, 1], and
\* forward_potential does not divide by zero.
C9_StdPositiveOnSchedule ==
  (/\ sde.status = "ok"
   /\ RLt(Zero, sde.beta_min) /\ RLt(Zero, sde.beta_max)
   /\ \E i \in 1..Len(sde.train_ts) : sde.train_ts[i] = ret.t) =>
    /\ ret.op = "marginal_prob" =>
          /\ ~ret.res.val[2].nan
          /\ RLt(ret.res.val[2].ome, Zero)
          /\ RLe(ret.res.val[1].exparg, Zero)
    /\ ret.op = "forward_potential" => ret.res.val.cls = "finite"

\* C10: for n_steps >= 1 the forward discretize(x,t) returns f = drift * dt
\* and G with G^2 = diffusion^2 * dt, dt = 1/n_steps, (drift, diffusion) =
\* sde(x,t); for OU drift = -1/2 * beta(t) * x and diffusion^2 = beta(t).
C10_ForwardDiscretize ==
  /\ (ret.op = "discretize" /\ sde.n_steps >= 1) =>
        LET dt == Rat(1, sde.n_steps)
            fw == OU_sde(sde, ret.x, ret.t)
        IN  /\ ret.res.outcome = "returned"
            /\ ret.res.val[1] = RMul(fw[1], dt)
            /\ SurdSq(ret.res.val[2]) = RMul(SurdSq(fw[2]), dt)
            /\ ret.res.val[1] = RMul(RMul(RMul(RNeg(Half), Beta(ret.t)), ret.x), dt)
            /\ SurdSq(ret.res.val[2]) = RMul(Beta(ret.t), dt)
  /\ ret.op = "sde" =>
        /\ ret.res.val[1] = RMul(RMul(RNeg(Half), Beta(ret.t)), ret.x)
        /\ SurdSq(ret.res.val[2]) = Beta(ret.t)

\* a forward discretize call with dt < 1, a non-zero f and a non-zero G
C10_Witness ==
  /\ ret.op = "discretize"
  /\ sde.n_steps >= 2
  /\ ret.res.outcome = "returned"
  /\ ret.res.val[1] # Zero
  /\ SurdSq(ret.res.val[2]) # Zero
  /\ sde.beta_min # sde.beta_max

\* C11: the reverse object shares the forward SDE's train_ts and carries its
\* n_steps, beta_min and beta_max, so the inherited marginal_prob is defined
\* on it and returns the forward SDE's result.
C11_ReverseSharesParameters ==
  rsde.status = "ok" =>
    /\ rsde.train_ts = sde.train_ts
    /\ {"n_steps", "beta_min", "beta_max"} \subseteq rsde.attrs
    /\ ret.op = "rsde.marginal_prob" =>
          ret.res = Returned(OU_marginal_prob(sde, ret.x, ret.t))

\* C12: a constructed SDE never changes, whatever is called on it or on a
\* reverse object derived from it, and its sde and discretize return the
\* forward values also once a reverse object exists.
C12_ForwardImmutable ==
  /\ [][sde.status = "ok" => sde' = sde]_vars
  /\ [](rsde.status = "ok" =>
          /\ ret.op = "sde" =>
                ret.res.val[1] = RMul(RMul(RNeg(Half), Beta(ret.t)), ret.x)
          /\ (ret.op = "discretize" /\ sde.n_steps >= 1) =>
                ret.res.val[1] =
                  RMul(RMul(RMul(RNeg(Half), Beta(ret.t)), ret.x), Rat(1, sde.n_steps)))

\* a forward sde call made while a reverse object with a different drift
\* exists, on an SDE whose schedule has two elements or more
C12_Witness ==
  /\ rsde.status = "ok"
  /\ Len(sde.train_ts) >= 2
  /\ ret.op = "sde"
  /\ ret.res.val[1] # RSDE_sde(sde, rsde, ret.x, ret.t)[1]

\* a = 1/2 * beta(t) * dt
HalfBetaDt(t) == RMul(RMul(Half, Beta(t)), Rat(1, sde.n_steps))

\* C14 as stated: with zero score and no noise, x' = x + f(x,t) followed by
\* x'' = x' + rev_f(x',t) yields x'' = x.
C14_ExactInverse ==
  (/\ ret.op = "roundtrip" /\ ret.score = "zero"
   /\ sde.n_steps >= 1 /\ ret.res.outcome = "returned") =>
    ret.res.val[2] = ret.x

\* C14 amended: with zero score and no noise, x' = x * (1 - a) and
\* x'' = x * (1 - a^2), a = 1/2 * beta(t) * dt; x'' = x exactly when x = 0 or
\* beta(t) = 0.
C14_RoundTrip ==
  (/\ ret.op = "roundtrip" /\ ret.score = "zero"
   /\ sde.n_steps >= 1 /\ ret.res.outcome = "returned") =>
    LET a == HalfBetaDt(ret.t)
    IN  /\ ret.res.val[1] = RMul(ret.x, RSub(One, a))
        /\ ret.res.val[2] = RMul(ret.x, RSub(One, RMul(a, a)))
        /\ (ret.res.val[2] = ret.x) <=> (ret.x = Zero \/ Beta(ret.t) = Zero)

\* a zero-score round trip that does not return to x
C14_Witness ==
  /\ ret.op = "roundtrip"
  /\ ret.score = "zero"
  /\ sde.n_steps >= 1
  /\ ret.res.outcome = "returned"
  /\ ret.res.val[2] # ret.x

\* C15: with beta_min > 0 and beta_max > 0, log_mean_coeff is strictly
\* decreasing on [0,1]: for t1 < t2 the mean scale at t2 is smaller and the
\* std at t2 larger, and the std stays a real number below 1.
C15_Monotone ==
  (/\ sde.status = "ok" /\ ret.op = "marginal_prob"
   /\ RLt(Zero, sde.beta_min) /\ RLt(Zero, sde.beta_max)) =>
    /\ ret.res.val[1].exparg = OU_log_mean_coeff(sde, ret.t)
    /\ ~ret.res.val[2].nan
    /\ IsFinite(ret.res.val[2].ome)
    /\ \A t1 \in Times(sde.train_ts) :
          RLt(t1, ret.t) =>
            /\ RLt(OU_log_mean_coeff(sde, ret.t), OU_log_mean_coeff(sde, t1))
            /\ RLt(ret.res.val[1].exparg, OU_mean_coeff(sde, t1).exparg)
            /\ RLt(ret.res.val[2].ome, OU_variance(sde, t1).ome)

\* a marginal_prob call at t = 1 on an SDE with 0 < beta_min < beta_max
C15_Witness ==
  /\ sde.status = "ok"
  /\ ret.op = "marginal_prob"
  /\ ret.t = One
  /\ RLt(Zero, sde.beta_min)
  /\ RLt(sde.beta_min, sde.beta_max)

C13_ResumesFromCheckpoint ==
  (meta_ckpt.present /\ pc \in {"loop", "finish", "done", "raised"}) =>
    /\ initial_step = meta_ckpt.saved_at
    /\ (pc = "loop" /\ i_epoch = 1 /\ i_batch = 0) =>
          /\ state.params = meta_ckpt.state.params
          /\ state.opt_state = meta_ckpt.state.opt_state
          /\ rng = meta_ckpt.state.rng

\* C18: on process 0, with the frequencies multiples of n_jitted_steps, every
\* multiple m of snapshot_freq with initial_step < m <= step has a regular
\* checkpoint saved while step = m, and every such multiple of
\* snapshot_freq_for_preemption a preemption checkpoint.
C18_NoCheckpointMissed ==
  (cfg.process_index = 0 /\ pc \in {"loop", "finish", "done"}) =>
    \A m \in (initial_step + 1)..step :
      /\ m % cfg.snapshot_freq = 0 =>
            \E j \in 1..Len(ckpt_saves) :
              /\ ckpt_saves[j].step = m
              /\ ckpt_saves[j].id = m \div cfg.snapshot_freq
              /\ ckpt_saves[j].state.params = m - initial_step
      /\ m % cfg.snapshot_freq_for_preemption = 0 =>
            \E j \in 1..Len(meta_saves) :
              /\ meta_saves[j].step = m
              /\ meta_saves[j].id = m \div cfg.snapshot_freq_for_preemption
              /\ meta_saves[j].state.params = m - initial_step

\* a finished run with two jitted steps per batch that passed two multiples
\* of snapshot_freq and one of snapshot_freq_for_preemption
C18_Witness ==
  /\ pc = "done"
  /\ cfg.n_jitted_steps = 2
  /\ step >= 2 * cfg.snapshot_freq
  /\ Len(ckpt_saves) >= 2
  /\ Len(meta_saves) >= 1

\* C19: every sample taken at a snapshot uses a reverse SDE built at that
\* step from the score of the parameters checkpointed at that step, not the
\* initial parameters and not an earlier snapshot's solver; no process
\* reaches the sampling branch with saved_state unassigned.
C19_ReverseRebuilt ==
  /\ \A i \in 1..Len(samples) :
        LET s == samples[i]
        IN  /\ s.solver.built
            /\ s.solver.built_at = s.step
            /\ \E j \in 1..Len(ckpt_saves) :
                  /\ ckpt_saves[j].step = s.step
                  /\ ckpt_saves[j].state.params = s.solver.score_params
            /\ s.solver.score_params # State0.params
            /\ \A k \in 1..(i - 1) : samples[k].solver # s.solver
  /\ pc = "raised" => exc # "UnboundLocalError: saved_state"

\* two samples taken at two snapshots, from different parameters
C19_Witness ==
  /\ cfg.snapshot_sampling
  /\ Len(samples) >= 2
  /\ samples[1].solver.score_params # samples[2].solver.score_params
  /\ outer_solver = samples[Len(samples)].solver

\* C20: within one run, every save to the regular checkpoint manager has an
\* identifier strictly greater than that of every earlier save.
C20_SaveIdsIncrease ==
  \A i \in 1..Len(ckpt_saves) :
    \A j \in (i + 1)..Len(ckpt_saves) : ckpt_saves[i].id < ckpt_saves[j].id

\* C21: when train returns, every epoch e in 1..num_epochs with
\* e % log_epoch_freq = 0 has its mean training loss in a row of the returned
\* mean_losses array (num_epochs rows), and the rows left at zero are only
\* those of epochs that were not logged.
C21_LoggedEpochsKept ==
  pc = "done" =>
    /\ Len(mean_losses) = cfg.n_iters
    /\ \A e \in 1..cfg.n_iters :
          e % cfg.log_epoch_freq = 0 =>
            \E r \in 1..Len(mean_losses) : mean_losses[r] = MeanLoss(e)
    /\ Cardinality({r \in 1..Len(mean_losses) : mean_losses[r] = 0}) =
         Cardinality({e \in 1..cfg.n_iters : e % cfg.log_epoch_freq # 0})

\* C22: on every host process, after k training batches the step counter
\* equals initial_step + k * n_jitted_steps, and no host reads saved_state
\* before assigning it.
C22_StepOnEveryHost ==
  /\ pc \in {"loop", "finish", "done"} =>
        step = initial_step +
               ((i_epoch - 1) * cfg.n_batches + i_batch) * cfg.n_jitted_steps
  /\ exc # "UnboundLocalError: saved_state"

====
